---------------------------- MODULE Spec2Model ----------------------------
(***************************************************************************)
(* TTDB: an in-memory key/value store with nested transactions, a value    *)
(* frequency index and timestamp based multi-version concurrency control   *)
(* (src/TTDB.py).  One server process serves several connections; every    *)
(* command handler runs to completion before the next one starts, so each  *)
(* handler is one atomic action of the model.                              *)
(*                                                                         *)
(* A dictionary of the program ({key: [[(value, write_stamp), ...],        *)
(* read_stamp]}) is a function whose DOMAIN is the set of keys present; a  *)
(* bucket is the record [items |-> <<<<value, stamp>>, ...>>, rs |-> n].   *)
(* A TTDBTransaction chain (outermost ... innermost subtransaction) is the *)
(* sequence `scopes`; the parent table of scope i is scope i-1 and the     *)
(* parent of scope 1 is the root table.                                    *)
(***************************************************************************)
EXTENDS Integers, Sequences, FiniteSets, TLC

\* Bounds of the model.
MaxTime == 3        \* the clock is read at most MaxTime times
MaxDepth == 2       \* a connection nests at most MaxDepth transactions

Sessions == {"X", "Y"}          \* connections
Keys == {"a", "b"}              \* variable names the clients use
Vals == {"10", "20"}            \* values the clients use
SharedKeys == {"a"}             \* ... when every connection runs every command
SharedVals == {"10"}
None == "None"                  \* Python's None: the value written by UNSET
NoItem == <<>>                  \* __read_item returning None (no pair)

VARIABLES
  now,            \* next value datetime.datetime.now() returns
  root,           \* TTDB.ttable: [table |-> dict, index |-> dict]
  transactions,   \* TTDB.transactions: connection -> transaction chain
  last,           \* history: the command handled by the last step, the
                  \* keys its connection had written per scope, what it sent
  shadow,         \* history: per open scope, the writes issued in it
  twin,           \* history kept under SpecDrop: the root table and the
                  \* transaction of connection X in the run in which the
                  \* commands of connection Y are left out, and what X was sent
  hist            \* history kept under SpecRW: what each open transaction
                  \* has read and then written, and what it lost a race on

vars == <<now, root, transactions, last, shadow, twin, hist>>

----------------------------------------------------------------------------
\* Helpers on sequences and dictionaries.

EmptyDict == [k \in {} |-> 0]

Put(d, key, b) == [k \in DOMAIN d \cup {key} |-> IF k = key THEN b ELSE d[k]]

\* a faulty del that leaves the key in the dictionary
DelNothing(d, key) == d

Del(d, key) == [k \in DOMAIN d \ {key} |-> d[k]]

Drop(seq, n) == SubSeq(seq, n + 1, Len(seq))

Take(seq, n) == SubSeq(seq, 1, n)

Min(S) == CHOOSE x \in S : \A y \in S : x <= y

\* str() of an integer, as sent by numequalto
Digit(n) == CASE n = 0 -> "0" [] n = 1 -> "1" [] n = 2 -> "2" [] n = 3 -> "3"
              [] n = 4 -> "4" [] n = 5 -> "5" [] n = 6 -> "6" [] n = 7 -> "7"
              [] n = 8 -> "8" [] n = 9 -> "9"

RECURSIVE StrNat(_)
StrNat(n) == IF n < 10 THEN Digit(n) ELSE StrNat(n \div 10) \o Digit(n % 10)

Str(n) == IF n < 0 THEN "-" \o StrNat(0 - n) ELSE StrNat(n)

----------------------------------------------------------------------------
\* TTDBTable

EmptyTable == [table |-> EmptyDict, index |-> EmptyDict]

\* The position __insert computes: the index (0-based) of the first item
\* whose stamp is later than the new item's, or len(items) when there is none.
InsertPos(items, stamp) ==
  LET later == {i \in 1..Len(items) : items[i][2] > stamp}
  IN  IF later = {} THEN Len(items) ELSE Min(later) - 1

\* a faulty __insert that never purges
InsertNoPurge(dictionary, key, item, autopurge) ==
  IF key \notin DOMAIN dictionary
  THEN Put(dictionary, key, [items |-> <<item>>, rs |-> item[2]])
  ELSE LET items == dictionary[key].items
           i == InsertPos(items, item[2])
       IN  Put(dictionary, key,
               [items |-> Take(items, i) \o <<item>> \o Drop(items, i),
                rs |-> item[2]])

\* __insert on one dictionary
Insert(dictionary, key, item, autopurge) ==
  IF key \notin DOMAIN dictionary
  THEN Put(dictionary, key, [items |-> <<item>>, rs |-> item[2]])
  ELSE LET items == dictionary[key].items
           i == InsertPos(items, item[2])
       IN  IF autopurge
           THEN Put(dictionary, key,
                    [items |-> <<item>> \o Drop(items, i), rs |-> item[2]])
           ELSE Put(dictionary, key,
                    [items |-> Take(items, i) \o <<item>> \o Drop(items, i),
                     rs |-> item[2]])

\* __read_item: the pair returned (NoItem for None)
ReadItem(dictionary, key, break_time) ==
  IF key \notin DOMAIN dictionary THEN NoItem
  ELSE LET items == dictionary[key].items
           later == {i \in 1..Len(items) : items[i][2] > break_time}
           stop == IF later = {} THEN Len(items) + 1 ELSE Min(later)
       IN  IF stop = 1 THEN NoItem ELSE items[stop - 1]

\* __read_item: the dictionary after the read (the read stamp is overwritten)
Touch(dictionary, key, break_time) ==
  IF key \notin DOMAIN dictionary THEN dictionary
  ELSE [dictionary EXCEPT ![key].rs = break_time]

\* read_value / read_index through the parent chain.  chain[1] is the root
\* table and chain[Len(chain)] is the table read first; which is "table" or
\* "index" and default is None or 0.
RECURSIVE ChainRead(_, _, _, _, _)
ChainRead(chain, which, key, time, default) ==
  LET n == Len(chain)
      pair == ReadItem(chain[n][which], key, time)
  IN  IF pair = NoItem
      THEN IF n = 1 THEN default
           ELSE ChainRead(Take(chain, n - 1), which, key, time, default)
      ELSE pair[1]

\* the chain after read_value / read_index: every table visited has the
\* bucket's read stamp set
RECURSIVE ChainTouch(_, _, _, _)
ChainTouch(chain, which, key, time) ==
  LET n == Len(chain)
      pair == ReadItem(chain[n][which], key, time)
      here == [chain EXCEPT ![n][which] = Touch(chain[n][which], key, time)]
  IN  IF pair = NoItem /\ n > 1
      THEN ChainTouch(Take(chain, n - 1), which, key, time) \o <<here[n]>>
      ELSE here

\* one index adjustment of write_value: read the count, insert count + delta
Adjust(chain, value, delta, time) ==
  LET n == Len(chain)
      old_index == ChainRead(chain, "index", value, time, 0)
      c == ChainTouch(chain, "index", value, time)
  IN  [c EXCEPT ![n].index =
         Insert(c[n].index, value, <<old_index + delta, time>>, n > 1)]

\* write_value on the last table of the chain (autopurge iff it has a parent)
WriteValue(chain, key, value, time) ==
  LET n == Len(chain)
      old_value == ChainRead(chain, "table", key, time, None)
      c1 == ChainTouch(chain, "table", key, time)
      c2 == [c1 EXCEPT ![n].table = Insert(c1[n].table, key, <<value, time>>, n > 1)]
      c3 == IF old_value # None /\ old_value # value
            THEN Adjust(c2, old_value, -1, time) ELSE c2
      c4 == IF value # None /\ old_value # value
            THEN Adjust(c3, value, 1, time) ELSE c3
  IN  c4

\* a faulty validation that also fails on an equal read stamp
ValidateStrict(self, other) ==
  \A k \in DOMAIN other : ~(k \in DOMAIN self /\ self[k].rs >= other[k].rs)

\* a faulty validation that loops over self's keys: every one of them has
\* to be in the passed dictionary with a read stamp that is not earlier
ValidateSelfKeys(self, other) ==
  \A k \in DOMAIN self : k \in DOMAIN other /\ self[k].rs <= other[k].rs

\* __update, first half: no key of the passed dictionary has a later read
\* stamp in self's dictionary
Validate(self, other) ==
  \A k \in DOMAIN other : ~(k \in DOMAIN self /\ self[k].rs > other[k].rs)

RECURSIVE InsertAll(_, _, _, _)
InsertAll(dictionary, key, items, autopurge) ==
  IF items = <<>> THEN dictionary
  ELSE InsertAll(Insert(dictionary, key, Head(items), autopurge),
                 key, Tail(items), autopurge)

\* __update, second half, on one dictionary (keys are independent)
RECURSIVE Merge(_, _, _, _)
Merge(self, other, keys, autopurge) ==
  IF keys = {} THEN self
  ELSE LET k == CHOOSE x \in keys : TRUE
       IN  Merge(InsertAll(self, k, other[k].items, autopurge),
                 other, keys \ {k}, autopurge)

\* a faulty __update that inserts the table's items before it has validated
\* the index
UpdateTableFirst(self, other, autopurge) ==
  IF ~Validate(self.table, other.table) THEN [ok |-> FALSE, t |-> self]
  ELSE IF ~Validate(self.index, other.index)
  THEN [ok |-> FALSE,
        t |-> [self EXCEPT !.table =
                 Merge(self.table, other.table, DOMAIN other.table, autopurge)]]
  ELSE [ok |-> TRUE,
        t |-> [table |-> Merge(self.table, other.table, DOMAIN other.table, autopurge),
               index |-> Merge(self.index, other.index, DOMAIN other.index, autopurge)]]

\* __update: [ok |-> success, t |-> self afterwards]
Update(self, other, autopurge) ==
  IF ~Validate(self.table, other.table) THEN [ok |-> FALSE, t |-> self]
  ELSE IF ~Validate(self.index, other.index) THEN [ok |-> FALSE, t |-> self]
  ELSE [ok |-> TRUE,
        t |-> [table |-> Merge(self.table, other.table, DOMAIN other.table, autopurge),
               index |-> Merge(self.index, other.index, DOMAIN other.index, autopurge)]]


\* purge_entries: a bucket whose only item holds value stays if the value
\* is not None (table) or is > 0 (index)
KeepValue(value) == value # None

KeepCount(value) == value > 0

PurgeBucket(items, time) ==
  LET out_values == SelectSeq(items, LAMBDA value : value[2] > time)
  IN  IF Len(out_values) > 0 THEN out_values ELSE Drop(items, Len(items) - 1)

\* purge_entries on one dictionary; counts tells the index from the table
PurgeDict(dictionary, time, counts) ==
  LET gone == {k \in DOMAIN dictionary :
                 /\ Len(dictionary[k].items) = 1
                 /\ IF counts THEN ~KeepCount(dictionary[k].items[1][1])
                    ELSE ~KeepValue(dictionary[k].items[1][1])}
  IN  [k \in DOMAIN dictionary \ gone |->
         IF Len(dictionary[k].items) = 1 THEN dictionary[k]
         ELSE [dictionary[k] EXCEPT !.items = PurgeBucket(@, time)]]

PurgeEntries(t, time) ==
  [table |-> PurgeDict(t.table, time, FALSE),
   index |-> PurgeDict(t.index, time, TRUE)]

----------------------------------------------------------------------------
\* TTDBTransaction

NewScope(timestamp) ==
  [timestamp |-> timestamp, table |-> EmptyDict, index |-> EmptyDict]

\* the parent chain of a connection's innermost transaction, root first
Chain(r, scopes) == <<r>> \o scopes

Innermost(scopes) == scopes[Len(scopes)]

\* a faulty begin whose subtransaction does not inherit the timestamp
TxnBeginOwnStamp(scopes) ==
  Append(scopes, NewScope(Innermost(scopes).timestamp + 1))

\* TTDBTransaction.begin: the deepest transaction gets a subtransaction
\* carrying its timestamp
TxnBegin(scopes) == Append(scopes, NewScope(Innermost(scopes).timestamp))

\* a faulty rollback that removes the whole chain
TxnRollbackAll(scopes) == <<>>

\* TTDBTransaction.rollback: the deepest transaction is removed; <<>> stands
\* for the None the outermost returns when it has no subtransaction
TxnRollback(scopes) == Take(scopes, Len(scopes) - 1)

\* a faulty commit that drops the subtransactions and commits the outermost
\* table only
TxnCommitOutermost(chain) ==
  LET r == Update(chain[1], chain[2], FALSE)
  IN  [ok |-> r.ok, root |-> r.t]

\* TTDBTransaction.commit on the chain: the deepest table is committed to its
\* parent first; a failure stops the collapse.  [ok, root as __update left it]
RECURSIVE TxnCommit(_)
TxnCommit(chain) ==
  LET n == Len(chain)
  IN  IF n = 1 THEN [ok |-> TRUE, root |-> chain[1]]
      ELSE LET r == Update(chain[n - 1], chain[n], n - 1 > 1)
               rest == Take(chain, n - 2) \o <<r.t>>
           IN  IF r.ok THEN TxnCommit(rest)
               ELSE [ok |-> FALSE, root |-> rest[1]]

\* a faulty set / unset that writes to the root table
TxnSetRoot(chain, variable, value) ==
  <<WriteValue(<<chain[1]>>, variable, value, chain[Len(chain)].timestamp)[1]>>
    \o Tail(chain)

\* TTDBTransaction.set / unset: write_value on the deepest table
TxnSet(chain, variable, value) ==
  WriteValue(chain, variable, value, chain[Len(chain)].timestamp)

\* a faulty get that reads the root table only
TxnGetRoot(chain, variable) ==
  ChainRead(<<chain[1]>>, "table", variable, chain[Len(chain)].timestamp, None)

\* TTDBTransaction.get: value returned, and the chain after the read
TxnGet(chain, variable) ==
  ChainRead(chain, "table", variable, chain[Len(chain)].timestamp, None)

TxnGetTouch(chain, variable) ==
  ChainTouch(chain, "table", variable, chain[Len(chain)].timestamp)

\* TTDBTransaction.numequalto
TxnNumEqualTo(chain, value) ==
  ChainRead(chain, "index", value, chain[Len(chain)].timestamp, 0)

TxnNumEqualToTouch(chain, value) ==
  ChainTouch(chain, "index", value, chain[Len(chain)].timestamp)

----------------------------------------------------------------------------
\* TTDB

Open == DOMAIN transactions          \* connections with a transaction

Timestamp(s) == transactions[s][1].timestamp

\* a faulty test that lets every transaction commit
AlwaysEarliest(s) == FALSE

\* a faulty test with the comparison reversed: it aborts a transaction
\* that is not the latest
NotLatest(s) ==
  s \in Open /\ \E x \in Open : Timestamp(x) > Timestamp(s)

\* the test of TTDB.commit that aborts a transaction that is not the earliest
NotEarliest(s) ==
  s \in Open /\ Timestamp(s) > Min({Timestamp(x) : x \in Open})

\* a faulty test that never refuses a write
NoBarrier == FALSE

\* the test of TTDB.set / TTDB.unset that refuses a write outside a
\* transaction while some connection has one
Barrier == Cardinality(Open) > 0

\* the keys a connection has written, per scope of its transaction
Stack(s) ==
  IF s \in Open THEN [i \in 1..Len(shadow[s]) |-> DOMAIN shadow[s][i]] ELSE <<>>

Sent(op, s, arg, replies) ==
  last' = [op |-> op, sess |-> s, arg |-> arg, stack |-> Stack(s),
           replies |-> replies]

NoKeys == [s \in Sessions |-> {}]

\* hist after a command of s; done says a transaction of s ended, ok that
\* it was committed.  read[s]: keys with a bucket in the root that the
\* transaction of s has read with GET; rw[s]: those it has written after
\* that; beaten[s]: keys the transaction of s had read when another
\* transaction that had read and then written them committed.
Track(op, s, key, done, ok) ==
  hist' =
    IF ~hist.on THEN hist
    ELSE IF op = "RESET"
    THEN [hist EXCEPT !.read = NoKeys, !.rw = NoKeys, !.beaten = NoKeys]
    ELSE IF done \/ op = "ROLLBACK" \/ s \notin Open
    THEN [hist EXCEPT
            !.read[s] = {}, !.rw[s] = {},
            !.beaten = [x \in Sessions |->
                          IF x = s THEN {}
                          ELSE IF ok /\ x \in Open
                          THEN @[x] \cup (hist.rw[s] \cap hist.read[x])
                          ELSE @[x]]]
    ELSE IF op = "GET" /\ key \in DOMAIN root.table
    THEN [hist EXCEPT !.read[s] = @ \cup {key}]
    ELSE IF op \in {"SET", "UNSET"} /\ key \in hist.read[s]
    THEN [hist EXCEPT !.rw[s] = @ \cup {key}]
    ELSE hist

\* The handlers of TTDB as functions of the root table r, the transaction
\* chain scopes of the connection (<<>> when it has none) and the clock, for
\* a connection that is alone: no other connection has a transaction, so
\* the write is not refused and the transaction is the earliest.
\* [root, txn, replies]
AloneBegin(r, scopes, time) ==
  [root |-> r,
   txn |-> IF scopes # <<>> THEN TxnBegin(scopes) ELSE <<NewScope(time)>>,
   replies |-> <<"success">>]

AloneCommit(r, scopes) ==
  IF scopes # <<>>
  THEN LET c == TxnCommit(Chain(r, scopes))
       IN  [root |-> c.root, txn |-> <<>>,
            replies |-> IF c.ok THEN <<"success">>
                        ELSE <<"Commit failed. Rolling back.">>]
  ELSE [root |-> r, txn |-> <<>>, replies |-> <<"No transaction to commit.">>]

AloneRollback(r, scopes) ==
  IF scopes # <<>>
  THEN [root |-> r, txn |-> TxnRollback(scopes), replies |-> <<"success">>]
  ELSE [root |-> r, txn |-> <<>>, replies |-> <<"INVALID ROLLBACK">>]

AloneSet(variable, value, r, scopes, time) ==
  LET c == IF scopes # <<>> THEN TxnSet(Chain(r, scopes), variable, value)
           ELSE WriteValue(<<r>>, variable, value, time)
  IN  [root |-> c[1], txn |-> Tail(c), replies |-> <<"success">>]

AloneGet(variable, r, scopes, time) ==
  LET at == IF scopes # <<>> THEN Innermost(scopes).timestamp ELSE time
      c == ChainTouch(Chain(r, scopes), "table", variable, at)
      value == ChainRead(Chain(r, scopes), "table", variable, at, None)
  IN  [root |-> c[1], txn |-> Tail(c),
       replies |-> <<IF value = None THEN "NULL" ELSE value>>]

AloneNumEqualTo(value, r, scopes, time) ==
  LET at == IF scopes # <<>> THEN Innermost(scopes).timestamp ELSE time
      c == ChainTouch(Chain(r, scopes), "index", value, at)
      num == ChainRead(Chain(r, scopes), "index", value, at, 0)
  IN  [root |-> c[1], txn |-> Tail(c), replies |-> <<Str(num)>>]

AloneOther(r, scopes) == [root |-> r, txn |-> scopes, replies |-> <<>>]

\* twin after a command handled as t in the other run: the commands of X are
\* handled there as well, at the same clock reading; the commands of Y are
\* left out of it
Twin(s, t) ==
  twin' =
    IF ~twin.on \/ s # "X" THEN twin
    ELSE [on |-> TRUE, root |-> t.root, txn |-> t.txn, replies |-> t.replies]

InitState ==
  /\ now = 1
  /\ root = EmptyTable
  /\ transactions = EmptyDict
  /\ last = [op |-> "-", sess |-> "-", arg |-> "-", stack |-> <<>>,
             replies |-> <<>>]
  /\ shadow = EmptyDict

NoTwin == [on |-> FALSE, root |-> EmptyTable, txn |-> <<>>, replies |-> <<>>]

Init ==
  /\ InitState
  /\ twin = NoTwin
  /\ hist = [on |-> FALSE, read |-> NoKeys, rw |-> NoKeys, beaten |-> NoKeys]

InitRW ==
  /\ InitState
  /\ twin = NoTwin
  /\ hist = [on |-> TRUE, read |-> NoKeys, rw |-> NoKeys, beaten |-> NoKeys]

\* TTDB.begin
Begin(s) ==
  /\ IF s \in Open
     THEN /\ Len(transactions[s]) < MaxDepth
          /\ transactions' = [transactions EXCEPT ![s] = TxnBegin(@)]
          /\ shadow' = [shadow EXCEPT ![s] = Append(@, EmptyDict)]
          /\ now' = now
     ELSE /\ now <= MaxTime
          /\ transactions' = Put(transactions, s, <<NewScope(now)>>)
          /\ shadow' = Put(shadow, s, <<EmptyDict>>)
          /\ now' = now + 1
  /\ root' = root
  /\ Track("BEGIN", s, "-", FALSE, FALSE)
  /\ Twin(s, AloneBegin(twin.root, twin.txn, now))
  /\ Sent("BEGIN", s, "-", <<"success">>)

\* TTDB.commit
Commit(s) ==
  /\ IF NotEarliest(s)
     THEN /\ transactions' = Del(transactions, s)
          /\ root' = root
          /\ Track("COMMIT", s, "-", TRUE, FALSE)
          /\ Sent("COMMIT", s, "-", <<"Conflicting lock. Aborting transaction.">>)
     ELSE IF s \in Open
     THEN LET r == TxnCommit(Chain(root, transactions[s]))
          IN  /\ transactions' = Del(transactions, s)
              /\ root' = r.root
              /\ Track("COMMIT", s, "-", TRUE, r.ok)
              /\ Sent("COMMIT", s, "-",
                      IF r.ok THEN <<"success">>
                      ELSE <<"Commit failed. Rolling back.">>)
     ELSE /\ UNCHANGED <<transactions, root>>
          /\ Track("COMMIT", s, "-", FALSE, FALSE)
          /\ Sent("COMMIT", s, "-", <<"No transaction to commit.">>)
  /\ shadow' = Del(shadow, s)
  /\ now' = now
  /\ Twin(s, AloneCommit(twin.root, twin.txn))

\* TTDB.rollback
Rollback(s) ==
  /\ IF s \in Open
     THEN /\ IF TxnRollback(transactions[s]) = <<>>
             THEN /\ transactions' = Del(transactions, s)
                  /\ shadow' = Del(shadow, s)
             ELSE /\ transactions' = [transactions EXCEPT ![s] = TxnRollback(@)]
                  /\ shadow' = [shadow EXCEPT ![s] = Take(@, Len(@) - 1)]
          /\ Sent("ROLLBACK", s, "-", <<"success">>)
     ELSE /\ UNCHANGED <<transactions, shadow>>
          /\ Sent("ROLLBACK", s, "-", <<"INVALID ROLLBACK">>)
  /\ Track("ROLLBACK", s, "-", FALSE, FALSE)
  /\ Twin(s, AloneRollback(twin.root, twin.txn))
  /\ UNCHANGED <<root, now>>

\* TTDB.set
Set(s, variable, value) ==
  /\ IF s \in Open
     THEN LET c == TxnSet(Chain(root, transactions[s]), variable, value)
          IN  /\ root' = c[1]
              /\ transactions' = [transactions EXCEPT ![s] = Tail(c)]
              /\ shadow' = [shadow EXCEPT ![s][Len(shadow[s])] =
                              Put(@, variable, value)]
              /\ now' = now
              /\ Sent("SET", s, variable, <<"success">>)
     ELSE IF Barrier
     THEN /\ UNCHANGED <<root, transactions, shadow, now>>
          /\ Sent("SET", s, variable,
                  <<"Conflicting lock. Aborting write.", "success">>)
     ELSE /\ now <= MaxTime
          /\ root' = WriteValue(<<root>>, variable, value, now)[1]
          /\ now' = now + 1
          /\ UNCHANGED <<transactions, shadow>>
          /\ Sent("SET", s, variable, <<"success">>)
  /\ Track("SET", s, variable, FALSE, FALSE)
  /\ Twin(s, AloneSet(variable, value, twin.root, twin.txn, now))

\* TTDB.unset
Unset(s, variable) ==
  /\ IF s \in Open
     THEN LET c == TxnSet(Chain(root, transactions[s]), variable, None)
          IN  /\ root' = c[1]
              /\ transactions' = [transactions EXCEPT ![s] = Tail(c)]
              /\ shadow' = [shadow EXCEPT ![s][Len(shadow[s])] =
                              Put(@, variable, None)]
              /\ now' = now
              /\ Sent("UNSET", s, variable, <<"success">>)
     ELSE IF Barrier
     THEN /\ UNCHANGED <<root, transactions, shadow, now>>
          /\ Sent("UNSET", s, variable, <<"Aborting write.", "success">>)
     ELSE /\ now <= MaxTime
          /\ root' = WriteValue(<<root>>, variable, None, now)[1]
          /\ now' = now + 1
          /\ UNCHANGED <<transactions, shadow>>
          /\ Sent("UNSET", s, variable, <<"success">>)
  /\ Track("UNSET", s, variable, FALSE, FALSE)
  /\ Twin(s, AloneSet(variable, None, twin.root, twin.txn, now))

\* str(value), with 'NULL' for None, as sent by TTDB.get
ShowValue(value) == IF value = None THEN "NULL" ELSE value

\* TTDB.get
Get(s, variable) ==
  /\ IF s \in Open
     THEN LET c == TxnGetTouch(Chain(root, transactions[s]), variable)
              value == TxnGet(Chain(root, transactions[s]), variable)
          IN  /\ root' = c[1]
              /\ transactions' = [transactions EXCEPT ![s] = Tail(c)]
              /\ now' = now
              /\ Sent("GET", s, variable, <<ShowValue(value)>>)
     ELSE /\ now <= MaxTime
          /\ root' = ChainTouch(<<root>>, "table", variable, now)[1]
          /\ now' = now + 1
          /\ transactions' = transactions
          /\ Sent("GET", s, variable,
                  <<ShowValue(ChainRead(<<root>>, "table", variable, now, None))>>)
  /\ shadow' = shadow
  /\ Track("GET", s, variable, FALSE, FALSE)
  /\ Twin(s, AloneGet(variable, twin.root, twin.txn, now))

\* TTDB.numequalto
NumEqualTo(s, value) ==
  /\ IF s \in Open
     THEN LET c == TxnNumEqualToTouch(Chain(root, transactions[s]), value)
              num == TxnNumEqualTo(Chain(root, transactions[s]), value)
          IN  /\ root' = c[1]
              /\ transactions' = [transactions EXCEPT ![s] = Tail(c)]
              /\ now' = now
              /\ Sent("NUMEQUALTO", s, value, <<Str(num)>>)
     ELSE /\ now <= MaxTime
          /\ root' = ChainTouch(<<root>>, "index", value, now)[1]
          /\ now' = now + 1
          /\ transactions' = transactions
          /\ Sent("NUMEQUALTO", s, value,
                  <<Str(ChainRead(<<root>>, "index", value, now, 0))>>)
  /\ shadow' = shadow
  /\ Track("NUMEQUALTO", s, value, FALSE, FALSE)
  /\ Twin(s, AloneNumEqualTo(value, twin.root, twin.txn, now))

\* a faulty RESET that replaces the root table and keeps the transactions
ResetRootOnly(s) ==
  /\ root' = EmptyTable
  /\ UNCHANGED <<transactions, shadow, now, twin, hist>>
  /\ Sent("RESET", s, "-", <<"success">>)

\* RESET in TTDB.run
Reset(s) ==
  /\ root' = EmptyTable
  /\ transactions' = EmptyDict
  /\ shadow' = EmptyDict
  /\ now' = now
  /\ Track("RESET", s, "-", TRUE, FALSE)
  /\ Twin(s, AloneOther(EmptyTable, <<>>))
  /\ Sent("RESET", s, "-", <<"success">>)

\* DEBUG in TTDB.run: the tables are printed by the server, nothing is sent
Debug(s) ==
  /\ UNCHANGED <<now, root, transactions, shadow, twin, hist>>
  /\ Sent("DEBUG", s, "-", <<>>)

\* a connection closes (recv returns no data in TTDB.run)
Disconnect(s) ==
  /\ transactions' = Del(transactions, s)
  /\ shadow' = Del(shadow, s)
  /\ UNCHANGED <<now, root>>
  /\ Track("CLOSE", s, "-", TRUE, FALSE)
  /\ Twin(s, AloneOther(twin.root, <<>>))
  /\ Sent("CLOSE", s, "-", <<>>)

\* the purge at the end of a round of TTDB.run, when purge_period has passed
\* since the last one.  The clock is read but no stamp is minted from it.
Purge ==
  /\ root' = PurgeEntries(root, Min({Timestamp(x) : x \in Open} \cup {now}))
  /\ UNCHANGED <<now, transactions, shadow, twin, hist>>
  /\ last' = [op |-> "PURGE", sess |-> "-", arg |-> "-", stack |-> <<>>,
              replies |-> <<>>]

\* The handler TTDB.run picks for a datum (the tokens of one command), "-"
\* when no branch of the dispatch matches.
Dispatch(datum) ==
  IF datum[1] = "SET" /\ Len(datum) = 3 THEN "SET"
  ELSE IF datum[1] = "GET" /\ Len(datum) = 2 THEN "GET"
  ELSE IF datum[1] = "UNSET" /\ Len(datum) = 2 THEN "UNSET"
  ELSE IF datum[1] = "NUMEQUALTO" /\ Len(datum) = 2 THEN "NUMEQUALTO"
  ELSE IF datum[1] = "BEGIN" /\ Len(datum) = 1 THEN "BEGIN"
  ELSE IF datum[1] = "ROLLBACK" /\ Len(datum) = 1 THEN "ROLLBACK"
  ELSE IF datum[1] = "COMMIT" /\ Len(datum) = 1 THEN "COMMIT"
  ELSE IF datum[1] = "RESET" /\ Len(datum) = 1 THEN "RESET"
  ELSE IF datum[1] = "DEBUG" /\ Len(datum) = 1 THEN "DEBUG"
  ELSE "-"

\* data the clients send besides the commands handled above: the BEGIN of
\* TTDBClient.do_begin, a command with a token too few, and a verb the
\* server does not know
Wire == {<<"BEGIN", "RW">>, <<"BEGIN", "RO">>, <<"SET", "a">>, <<"FOO">>}

RECURSIVE Join(_)
Join(datum) ==
  IF Len(datum) = 1 THEN datum[1] ELSE datum[1] \o " " \o Join(Tail(datum))

\* a datum no branch of the dispatch in TTDB.run matches: nothing is called
\* and nothing is sent
Ignored(s, datum) ==
  /\ Dispatch(datum) = "-"
  /\ UNCHANGED <<now, root, transactions, shadow, twin, hist>>
  /\ Sent(Join(datum), s, "-", <<>>)

Next ==
  \/ \E s \in Sessions : Begin(s)
  \/ \E s \in Sessions : Commit(s)
  \/ \E s \in Sessions : Rollback(s)
  \/ \E s \in Sessions, k \in SharedKeys, v \in SharedVals : Set(s, k, v)
  \/ \E s \in Sessions, k \in SharedKeys : Unset(s, k)
  \/ \E s \in Sessions, k \in SharedKeys : Get(s, k)
  \/ \E s \in Sessions, v \in SharedVals : NumEqualTo(s, v)
  \/ \E s \in Sessions : Reset(s)
  \/ \E s \in Sessions : Debug(s)
  \/ \E s \in Sessions : Disconnect(s)
  \/ Purge

Spec == Init /\ [][Next]_vars

\* The clients only open transactions, read and write variables and commit,
\* and the history of their reads and writes is recorded in hist.
NextRW ==
  \/ \E s \in Sessions : Begin(s)
  \/ \E s \in Sessions : Commit(s)
  \/ \E s \in Sessions, k \in SharedKeys, v \in SharedVals : Set(s, k, v)
  \/ \E s \in Sessions, k \in SharedKeys : Unset(s, k)
  \/ \E s \in Sessions, k \in SharedKeys : Get(s, k)

SpecRW == InitRW /\ [][NextRW]_vars

\* Connection X writes two variables with two values, in and out of nested
\* transactions; connection Y reads outside a transaction.  The clock is
\* read one time less than MaxTime allows.
ClockLeft == now' <= MaxTime

NextNest ==
  \/ Begin("X") /\ ClockLeft
  \/ Commit("X") /\ ClockLeft
  \/ Rollback("X") /\ ClockLeft
  \/ \E k \in Keys, v \in Vals : Set("X", k, v) /\ ClockLeft
  \/ \E k \in Keys : Unset("X", k) /\ ClockLeft
  \/ \E k \in Keys : Get("Y", k) /\ ClockLeft
  \/ \E v \in Vals : NumEqualTo("Y", v) /\ ClockLeft

SpecNest == Init /\ [][NextNest]_vars

\* The clients also send data the dispatch does not match.
NextWire ==
  \/ \E s \in Sessions : Begin(s)
  \/ \E s \in Sessions : Commit(s)
  \/ \E s \in Sessions : Rollback(s)
  \/ \E s \in Sessions, k \in SharedKeys, v \in SharedVals : Set(s, k, v)
  \/ \E s \in Sessions, k \in SharedKeys : Unset(s, k)
  \/ \E s \in Sessions, k \in SharedKeys : Get(s, k)
  \/ \E s \in Sessions, datum \in Wire : Ignored(s, datum)

SpecWire == Init /\ [][NextWire]_vars

\* Connection Y opens transactions, reads and writes in them and drops
\* them, by ROLLBACK or by closing; it never commits.  Connection X runs
\* commands that are not refused on account of a transaction of Y.  twin
\* follows the run without the commands of Y.
InitDrop ==
  /\ InitState
  /\ twin = [NoTwin EXCEPT !.on = TRUE]
  /\ hist = [on |-> FALSE, read |-> NoKeys, rw |-> NoKeys, beaten |-> NoKeys]

NextDrop ==
  \/ Begin("X")
  \/ ~NotEarliest("X") /\ Commit("X")
  \/ Rollback("X")
  \/ \E k \in SharedKeys, v \in SharedVals :
       ("X" \in Open \/ Open = {}) /\ Set("X", k, v)
  \/ \E k \in SharedKeys : ("X" \in Open \/ Open = {}) /\ Unset("X", k)
  \/ \E k \in SharedKeys : Get("X", k)
  \/ \E v \in SharedVals : NumEqualTo("X", v)
  \/ Begin("Y")
  \/ \E k \in SharedKeys, v \in SharedVals : "Y" \in Open /\ Set("Y", k, v)
  \/ \E k \in SharedKeys : "Y" \in Open /\ Unset("Y", k)
  \/ \E k \in SharedKeys : "Y" \in Open /\ Get("Y", k)
  \/ \E v \in SharedVals : "Y" \in Open /\ NumEqualTo("Y", v)
  \/ "Y" \in Open /\ Rollback("Y")
  \/ "Y" \in Open /\ Disconnect("Y")

SpecDrop == InitDrop /\ [][NextDrop]_vars

----------------------------------------------------------------------------
\* What the clients observe.

\* the value a GET of k outside a transaction returns now
RootGet(r, k) == ChainRead(<<r>>, "table", k, now, None)

\* the count a NUMEQUALTO of v outside a transaction returns now
RootNum(r, v) == ChainRead(<<r>>, "index", v, now, 0)

\* what GET k / NUMEQUALTO v of connection s returns, given the root table
\* and the transactions
ViewGet(r, txns, s, k) ==
  IF s \in DOMAIN txns THEN ShowValue(TxnGet(Chain(r, txns[s]), k))
  ELSE ShowValue(RootGet(r, k))

ViewNum(r, txns, s, v) ==
  IF s \in DOMAIN txns THEN Str(TxnNumEqualTo(Chain(r, txns[s]), v))
  ELSE Str(RootNum(r, v))

\* the write histories of a table, without the read stamps
Histories(r) ==
  [table |-> [k \in DOMAIN r.table |-> r.table[k].items],
   index |-> [v \in DOMAIN r.index |-> r.index[v].items]]

Committed == last.op = "COMMIT" /\ last.replies = <<"success">>

----------------------------------------------------------------------------
\* C1: whenever no connection has a transaction, NUMEQUALTO v outside a
\* transaction returns the number of keys k whose GET returns v.
C1_IndexCountsKeys ==
  Open = {} =>
    \A v \in Vals :
      Str(RootNum(root, v))
        = Str(Cardinality({k \in Keys : ShowValue(RootGet(root, k)) = v}))

\* C2: in an open transaction, a GET k (or NUMEQUALTO v) that follows a
\* GET k (NUMEQUALTO v) of the same connection, with one command of another
\* connection in between, returns what the first one returned.  The step
\* is the other connection's command; last holds the first read.
C2_RepeatableRead ==
  [][\A s \in Sessions :
       (/\ s \in Open
        /\ last.sess = s
        /\ last.op \in {"GET", "NUMEQUALTO"}
        /\ last'.sess \in Sessions \ {s}
        /\ s \in DOMAIN transactions')
       => IF last.op = "GET"
          THEN ViewGet(root', transactions', s, last.arg) = last.replies[1]
          ELSE ViewNum(root', transactions', s, last.arg) = last.replies[1]]_vars

\* C3: of two transactions that have both read a key that has a bucket in
\* the root while both were open, and have both written it afterwards, the
\* second to commit does not commit successfully.
C3_SecondCommitterFails ==
  [][\A s \in Sessions :
       (/\ last'.op = "COMMIT"
        /\ last'.sess = s
        /\ last'.replies = <<"success">>)
       => hist.rw[s] \cap hist.beaten[s] = {}]_vars

\* C4: every count in the root index is >= 0, and so is every count that
\* NUMEQUALTO returns outside a transaction.
C4_CountsNonNegative ==
  /\ \A v \in DOMAIN root.index :
       \A i \in 1..Len(root.index[v].items) : root.index[v].items[i][1] >= 0
  /\ \A v \in Vals : RootNum(root, v) >= 0

\* the value of the last write to k in the scopes w (innermost scope first)
LastWrite(w, k) ==
  w[CHOOSE i \in 1..Len(w) :
      /\ k \in DOMAIN w[i]
      /\ \A j \in (i + 1)..Len(w) : k \notin DOMAIN w[j]][k]

Written(w) == UNION {DOMAIN w[i] : i \in 1..Len(w)}

\* the step is a command of connection s handled while s has a transaction
InTransaction(s) == s \in Open /\ last'.sess = s

\* the step commits the transaction of s successfully
Commits(s) ==
  InTransaction(s) /\ last'.op = "COMMIT" /\ last'.replies = <<"success">>

\* C5: a GET of a connection with a transaction returns the last write the
\* transaction made to the key in a scope that is still open, and a command
\* handled in a transaction, other than a successful COMMIT or a RESET,
\* leaves what every other connection's GET and NUMEQUALTO return unchanged.
C5_OwnWritesOnly ==
  [][/\ \A s \in DOMAIN transactions' : \A k \in Written(shadow'[s]) :
          ViewGet(root', transactions', s, k)
            = ShowValue(LastWrite(shadow'[s], k))
     /\ \A s \in Sessions :
          (InTransaction(s) /\ ~Commits(s) /\ last'.op # "RESET")
          => \A x \in Sessions \ {s} :
               /\ \A k \in Keys :
                    ViewGet(root', transactions', x, k)
                      = ViewGet(root, transactions, x, k)
               /\ \A v \in Vals :
                    ViewNum(root', transactions', x, v)
                      = ViewNum(root, transactions, x, v)]_vars

\* a connection has written in the outer of two scopes and reads its write
\* in the inner one, and another connection reads something else
C5_Witness ==
  \E s \in Open : \E x \in Sessions \ {s} : \E k \in Keys :
    /\ Len(shadow[s]) = 2
    /\ k \in DOMAIN shadow[s][1]
    /\ k \notin DOMAIN shadow[s][2]
    /\ last.op = "GET" /\ last.sess = s /\ last.arg = k
    /\ last.replies = <<ShowValue(shadow[s][1][k])>>
    /\ ViewGet(root, transactions, x, k) # ViewGet(root, transactions, s, k)

\* C6: after a COMMIT that sends success, a GET outside a transaction
\* returns, for every key written in some scope of the committed stack, the
\* value of the stack's last write to it; the whole stack is applied in the
\* one step.
C6_CommitAppliesStack ==
  [][\A s \in Sessions :
       Commits(s) =>
         \A k \in Written(shadow[s]) :
           ShowValue(RootGet(root', k)) = ShowValue(LastWrite(shadow[s], k))]_vars

\* a stack of two scopes has been committed: one key was written in both
\* scopes, another in the outer one only, and the two hold different values
C6_Witness ==
  /\ Committed
  /\ Len(last.stack) = 2
  /\ \E k \in Keys : \E j \in Keys \ {k} :
       /\ k \in last.stack[1] /\ k \in last.stack[2]
       /\ j \in last.stack[1] /\ j \notin last.stack[2]
       /\ RootGet(root, k) \in Vals
       /\ RootGet(root, j) \in Vals \ {RootGet(root, k)}

\* C7: a COMMIT that does not send success leaves the root table as it was.
C7_FailedCommitKeepsRoot ==
  [][(last'.op = "COMMIT" /\ last'.replies # <<"success">>) => root' = root]_vars

\* a COMMIT of a transaction with writes failed on validation
C7_Witness ==
  /\ last.op = "COMMIT"
  /\ last.replies = <<"Commit failed. Rolling back.">>
  /\ \E i \in 1..Len(last.stack) : last.stack[i] # {}

\* C8: while some other connection has a transaction, a SET or UNSET of a
\* connection that has none is answered with a refusal and leaves the root
\* table and the transactions unchanged; its GET and NUMEQUALTO are answered
\* with the value read from the root table.
C8_WriteBarrier ==
  [][\A s \in Sessions :
       (/\ s \notin Open
        /\ Open # {}
        /\ last'.sess = s)
       => /\ last'.op = "SET"
             => /\ Head(last'.replies) = "Conflicting lock. Aborting write."
                /\ root' = root /\ transactions' = transactions
          /\ last'.op = "UNSET"
             => /\ Head(last'.replies) = "Aborting write."
                /\ root' = root /\ transactions' = transactions
          /\ last'.op = "GET"
             => last'.replies = <<ShowValue(RootGet(root, last'.arg))>>
          /\ last'.op = "NUMEQUALTO"
             => last'.replies = <<Str(RootNum(root, last'.arg))>>]_vars

\* a SET has been refused while the key is unset and another connection has
\* a transaction
C8_Witness ==
  /\ last.op = "SET"
  /\ Head(last.replies) = "Conflicting lock. Aborting write."
  /\ last.sess \notin Open
  /\ Open # {}
  /\ RootGet(root, last.arg) = None

\* some other transaction is older than the transaction of s
Later(s) ==
  \E x \in Open \ {s} :
    transactions[x][1].timestamp < transactions[s][1].timestamp

\* C9: a COMMIT of a connection whose transaction is not the oldest is
\* answered with Conflicting lock. Aborting transaction., the connection's
\* transaction is dropped, the root table and every other transaction stay
\* as they were, and the oldest transaction is not refused by that test.
C9_OnlyEarliestCommits ==
  [][\A s \in Sessions :
       (/\ s \in Open
        /\ Later(s)
        /\ last'.op = "COMMIT"
        /\ last'.sess = s)
       => /\ last'.replies = <<"Conflicting lock. Aborting transaction.">>
          /\ s \notin DOMAIN transactions'
          /\ root' = root
          /\ \A x \in Open \ {s} :
               x \in DOMAIN transactions' /\ transactions'[x] = transactions[x]
          /\ \A x \in Open \ {s} :
               ~Later(x) => ~NotEarliest(x)']_vars

\* the COMMIT of a later transaction has been refused, and the COMMIT of the
\* oldest one, which has written the key, would send success and set it
C9_Witness ==
  /\ last.op = "COMMIT"
  /\ last.replies = <<"Conflicting lock. Aborting transaction.">>
  /\ last.stack # <<>> /\ last.stack[1] # {}
  /\ \E x \in Open : \E k \in DOMAIN shadow[x][1] :
       LET r == TxnCommit(Chain(root, transactions[x]))
       IN  /\ r.ok
           /\ shadow[x][1][k] # None
           /\ RootGet(r.root, k) = shadow[x][1][k]

\* C10: a command handled in a transaction, the ROLLBACK that ends it
\* included, leaves the write histories of the root table as they were,
\* unless it is a COMMIT that sends success or a RESET.
C10_RollbackLeavesNoTrace ==
  [][\A s \in Sessions :
       (InTransaction(s) /\ ~Commits(s) /\ last'.op # "RESET")
       => Histories(root') = Histories(root)]_vars

\* a transaction that has written has been rolled back and is gone
C10_Witness ==
  /\ last.op = "ROLLBACK"
  /\ last.replies = <<"success">>
  /\ last.sess \notin Open
  /\ last.stack # <<>> /\ last.stack[1] # {}

\* C11: once connection Y has dropped its transaction, by ROLLBACK or by
\* closing, connection X is sent the same replies as in the run without the
\* commands of the transactions of Y.
C11_DroppedLeavesNoTrace ==
  (twin.on /\ last.sess = "X" /\ "Y" \notin Open)
    => last.replies = twin.replies

\* C12: a ROLLBACK of a connection with d >= 1 scopes sends success and
\* removes the innermost scope only: at d > 1 the other d - 1 scopes stay as
\* they were and GET returns, for a key written in one of them, the last
\* write of those scopes; at d = 1 the connection has no transaction any
\* more and its GET returns the value of the root table.  A ROLLBACK of a
\* connection without a transaction sends INVALID ROLLBACK and changes
\* nothing.  The root table is never changed.
C12_RollbackOneScope ==
  [][\A s \in Sessions :
       (last'.op = "ROLLBACK" /\ last'.sess = s)
       => /\ root' = root
          /\ \A x \in Open \ {s} :
               x \in DOMAIN transactions' /\ transactions'[x] = transactions[x]
          /\ IF s \notin Open
             THEN /\ last'.replies = <<"INVALID ROLLBACK">>
                  /\ transactions' = transactions
             ELSE LET d == Len(transactions[s])
                      kept == Take(shadow[s], d - 1)
                  IN  /\ last'.replies = <<"success">>
                      /\ IF d = 1
                         THEN /\ s \notin DOMAIN transactions'
                              /\ \A k \in Keys :
                                   ViewGet(root', transactions', s, k)
                                     = ShowValue(RootGet(root, k))
                         ELSE /\ s \in DOMAIN transactions'
                              /\ transactions'[s] = Take(transactions[s], d - 1)
                              /\ \A k \in Written(kept) :
                                   ViewGet(root', transactions', s, k)
                                     = ShowValue(LastWrite(kept, k))]_vars

\* the inner of two scopes that both wrote a key has been rolled back, and
\* GET returns the outer scope's value, which is not the root table's
C12_Witness ==
  /\ last.op = "ROLLBACK"
  /\ last.replies = <<"success">>
  /\ last.sess \in Open
  /\ Len(last.stack) = 2
  /\ \E k \in Keys :
       /\ k \in last.stack[1] /\ k \in last.stack[2]
       /\ shadow[last.sess][1][k] \in Vals
       /\ ViewGet(root, transactions, last.sess, k) = shadow[last.sess][1][k]
       /\ RootGet(root, k) \in Vals \ {shadow[last.sess][1][k]}

\* the time the purge at the end of a round of TTDB.run is given
Horizon == Min({Timestamp(x) : x \in Open} \cup {now})

\* C13: a purge leaves what read_value(k, t) and read_index(v, t) return on
\* the root table unchanged for every key, every value and every time t
\* from the purge's horizon on.
C13_PurgePreservesReads ==
  [][last'.op = "PURGE" =>
       \A t \in Horizon..(MaxTime + 1) :
         /\ \A k \in Keys :
              ChainRead(<<root'>>, "table", k, t, None)
                = ChainRead(<<root>>, "table", k, t, None)
         /\ \A v \in Vals :
              ChainRead(<<root'>>, "index", v, t, 0)
                = ChainRead(<<root>>, "index", v, t, 0)]_vars

\* the commands TTDB.run recognises
Commands ==
  {"SET", "UNSET", "GET", "NUMEQUALTO", "BEGIN", "COMMIT", "ROLLBACK", "RESET",
   "DEBUG"}

\* C14: the handling of a recognised command sends exactly one reply to the
\* connection that issued it.
C14_OneReply ==
  [][last'.op \in Commands => Len(last'.replies) = 1]_vars

\* C15: BEGIN RW and BEGIN RO are handled as BEGIN is: success is sent, and
\* the connection has a transaction with one scope if it had none and with
\* one scope more if it had one.
C15_BeginModes ==
  [][\A s \in Sessions :
       (last'.sess = s /\ last'.op \in {"BEGIN RW", "BEGIN RO"})
       => /\ last'.replies = <<"success">>
          /\ s \in DOMAIN transactions'
          /\ Len(transactions'[s])
               = IF s \in Open THEN Len(transactions[s]) + 1 ELSE 1]_vars

\* what the handlers send when they refuse a command
Refusals ==
  {"Conflicting lock. Aborting write.", "Aborting write.", "INVALID ROLLBACK",
   "No transaction to commit."}

\* C16: after a COMMIT the connection has no transaction, whatever was
\* sent, and a COMMIT of a connection without a transaction is answered No
\* transaction to commit.; a command that is refused, and a datum the
\* dispatch does not match, leave the root table and every transaction as
\* they were.
C16_OnlyCommitDrops ==
  [][\A s \in Sessions :
       last'.sess = s
       => /\ last'.op = "COMMIT"
             => /\ s \notin DOMAIN transactions'
                /\ s \notin Open
                     => last'.replies = <<"No transaction to commit.">>
          /\ (\/ last'.op \in {Join(datum) : datum \in Wire}
              \/ (last'.replies # <<>> /\ Head(last'.replies) \in Refusals))
             => root' = root /\ transactions' = transactions]_vars

\* a datum the dispatch does not match came from a connection whose
\* transaction, which has written, is the later of two
C16_Witness ==
  /\ last.op \in {Join(datum) : datum \in Wire}
  /\ last.sess \in Open
  /\ last.stack # <<>> /\ last.stack[1] # {}
  /\ NotEarliest(last.sess)

\* C17: a RESET sends success and leaves an empty root table and no
\* transaction: for every connection GET returns NULL and NUMEQUALTO 0, a
\* COMMIT would be answered No transaction to commit., and a write outside
\* a transaction is not refused.
C17_ResetEmpties ==
  [][last'.op = "RESET" =>
       /\ last'.replies = <<"success">>
       /\ root' = [table |-> << >>, index |-> << >>]
       /\ DOMAIN transactions' = {}
       /\ ~Barrier'
       /\ \A s \in Sessions :
            /\ \A k \in Keys : ViewGet(root', transactions', s, k) = "NULL"
            /\ \A v \in Vals : ViewNum(root', transactions', s, v) = "0"
            /\ AloneCommit(root', IF s \in DOMAIN transactions'
                                  THEN transactions'[s] ELSE <<>>).replies
                 = <<"No transaction to commit.">>]_vars

\* a RESET has dropped a transaction with two scopes, both with writes
C17_Witness ==
  /\ last.op = "RESET"
  /\ Len(last.stack) = 2
  /\ last.stack[1] # {} /\ last.stack[2] # {}
  /\ Open = {}

\* C18: the read stamp of a bucket of the root table or of the root index
\* never decreases while the bucket exists (a RESET replaces the table and
\* a purge may delete the bucket).
C18_ReadStampMonotone ==
  [][last'.op \notin {"RESET", "PURGE"} =>
       /\ \A k \in DOMAIN root.table \cap DOMAIN root'.table :
            root'.table[k].rs >= root.table[k].rs
       /\ \A v \in DOMAIN root.index \cap DOMAIN root'.index :
            root'.index[v].rs >= root.index[v].rs]_vars

\* the latest write stamp of a bucket
LatestStamp(bucket) == bucket.items[Len(bucket.items)][2]

\* some key of the committing dictionary is in the parent's with a read
\* stamp greater than the latest write stamp of the committing bucket
Conflict(parent, committing) ==
  \E k \in DOMAIN committing \cap DOMAIN parent :
    parent[k].rs > LatestStamp(committing[k])

\* every entry of the committing dictionary is in the dictionary d
HoldsAll(d, committing) ==
  \A k \in DOMAIN committing :
    /\ k \in DOMAIN d
    /\ \A i \in 1..Len(committing[k].items) :
         \E j \in 1..Len(d[k].items) : d[k].items[j] = committing[k].items[i]

\* the commits that collapse the chain, deepest first, do what C19 says
RECURSIVE MergesAsStated(_)
MergesAsStated(chain) ==
  LET n == Len(chain)
  IN  IF n = 1 THEN TRUE
      ELSE LET parent == chain[n - 1]
               r == Update(parent, chain[n], n - 1 > 1)
               conflict == \/ Conflict(parent.table, chain[n].table)
                           \/ Conflict(parent.index, chain[n].index)
           IN  /\ r.ok = ~conflict
               /\ ~r.ok => r.t = parent
               /\ r.ok => /\ HoldsAll(r.t.table, chain[n].table)
                          /\ HoldsAll(r.t.index, chain[n].index)
                          /\ MergesAsStated(Take(chain, n - 2) \o <<r.t>>)

\* C19: the commit of a table into its parent fails exactly when some key
\* of the committing table, or some value of the committing index, has a
\* bucket in the parent whose read stamp is greater than the latest write
\* stamp of the committing bucket; otherwise it succeeds and the parent
\* holds every entry of the committing table and index.  Stated of the
\* commits a COMMIT of each open transaction would run now.
C19_MergeConflictRule ==
  \A s \in Open : MergesAsStated(Chain(root, transactions[s]))

\* a transaction with two scopes whose inner commit would succeed and whose
\* commit into the root table would fail on the index alone
C19_Witness ==
  \E s \in Open :
    /\ Len(transactions[s]) = 2
    /\ DOMAIN transactions[s][2].table # {}
    /\ LET r == Update(transactions[s][1], transactions[s][2], TRUE)
       IN  /\ r.ok
           /\ ~Conflict(root.table, r.t.table)
           /\ Conflict(root.index, r.t.index)

\* the write stamps of the items are strictly ascending
Ascending(items) ==
  \A i \in 1..(Len(items) - 1) : items[i][2] < items[i + 1][2]

\* C20: in every bucket of the root table and of the root index the write
\* stamps of the entries are strictly ascending.
C20_StampsAscending ==
  /\ \A k \in DOMAIN root.table : Ascending(root.table[k].items)
  /\ \A v \in DOMAIN root.index : Ascending(root.index[v].items)

\* a transaction that wrote the same key in both of its scopes has been
\* committed into buckets that held entries already
C20_Witness ==
  /\ Committed
  /\ Len(last.stack) = 2
  /\ \E k \in Keys :
       /\ k \in last.stack[1] /\ k \in last.stack[2]
       /\ k \in DOMAIN root.table /\ Len(root.table[k].items) >= 2
  /\ \E v \in DOMAIN root.index : Len(root.index[v].items) >= 2

\* every bucket of the dictionary holds one entry, written at stamp
OneEntryEach(dictionary, stamp) ==
  \A k \in DOMAIN dictionary :
    /\ Len(dictionary[k].items) = 1
    /\ dictionary[k].items[1][2] = stamp

\* the table of the scope holds, for every key it has a bucket for, the
\* last write w records for the key
HoldsLatest(scope, w) ==
  \A k \in DOMAIN scope.table :
    /\ k \in Written(w)
    /\ scope.table[k].items[1][1] = LastWrite(w, k)

\* the scope is as a transaction scope with timestamp stamp and writes w
ScopeShape(scope, stamp, w) ==
  /\ scope.timestamp = stamp
  /\ OneEntryEach(scope.table, stamp)
  /\ OneEntryEach(scope.index, stamp)
  /\ HoldsLatest(scope, w)

\* scope i - 1 of the nest after scope i has been committed into it
Collapsed(scopes, i) ==
  [scopes[i - 1] EXCEPT
     !.table = Update(scopes[i - 1], scopes[i], TRUE).t.table,
     !.index = Update(scopes[i - 1], scopes[i], TRUE).t.index]

\* C21: every scope of a connection's nest carries the timestamp of the
\* outermost scope, and every bucket of a scope's own table and index holds
\* exactly one entry, stamped with that timestamp and, in the table, holding
\* the scope's latest write to the key; the same is true of a scope once
\* the scope nested in it has been committed into it.
C21_ScopeHoldsLatestWrites ==
  \A s \in Open :
    /\ \A i \in 1..Len(transactions[s]) :
         ScopeShape(transactions[s][i], Timestamp(s), <<shadow[s][i]>>)
    /\ \A i \in 2..Len(transactions[s]) :
         /\ Update(transactions[s][i - 1], transactions[s][i], TRUE).ok
         /\ ScopeShape(Collapsed(transactions[s], i), Timestamp(s),
                       <<shadow[s][i - 1], shadow[s][i]>>)

\* a nest of two scopes in which one key was written in the outer scope
\* and again, with another value, in the nested scope, and another key in
\* the nested scope only
C21_Witness ==
  \E s \in Open :
    /\ Len(transactions[s]) = 2
    /\ \E k \in Keys : \E j \in Keys \ {k} :
         /\ k \in DOMAIN shadow[s][1] /\ k \in DOMAIN shadow[s][2]
         /\ shadow[s][1][k] # shadow[s][2][k]
         /\ j \notin DOMAIN shadow[s][1] /\ j \in DOMAIN shadow[s][2]
         /\ Collapsed(transactions[s], 2).table[k].items
              = <<(<<shadow[s][2][k], Timestamp(s)>>)>>
         /\ Cardinality(DOMAIN Collapsed(transactions[s], 2).index) >= 2

\* every entry of a bucket of new that the bucket did not hold in old has a
\* write stamp not below any entry the bucket held in old
AppendedOnly(old, new) ==
  \A k \in DOMAIN new \cap DOMAIN old :
    \A i \in 1..Len(new[k].items) :
      \/ \E j \in 1..Len(old[k].items) : old[k].items[j] = new[k].items[i]
      \/ \A j \in 1..Len(old[k].items) :
           old[k].items[j][2] <= new[k].items[i][2]

\* C22: the root history is append-only: every entry a step inserts into a
\* bucket of the root table or the root index, by a direct write or by a
\* commit, has a write stamp greater than or equal to that of every entry
\* the bucket already held, whatever the interleaving of the connections.
C22_RootAppendOnly ==
  [][/\ AppendedOnly(root.table, root'.table)
     /\ AppendedOnly(root.index, root'.index)]_vars

\* a transaction has been committed while another connection had a later
\* transaction open, into a table bucket and an index bucket that held
\* entries already
C22_Witness ==
  /\ Committed
  /\ Open # {}
  /\ \E k \in last.stack[1] :
       k \in DOMAIN root.table /\ Len(root.table[k].items) >= 2
  /\ \E v \in DOMAIN root.index :
       /\ Len(root.index[v].items) >= 2
       /\ \A x \in Open : LatestStamp(root.index[v]) < Timestamp(x)

\* C23: the COMMIT of a transaction in which no scope of the stack has
\* performed a SET or UNSET, and whose timestamp is the minimum among the
\* open transactions, sends success and leaves the root table and index as
\* they were, whatever has been read by it and by the other connections.
C23_ReadOnlyCommits ==
  [][\A s \in Sessions :
       (/\ InTransaction(s)
        /\ last'.op = "COMMIT"
        /\ Written(shadow[s]) = {}
        /\ ~NotEarliest(s))
       => /\ last'.replies = <<"success">>
          /\ root' = root]_vars

\* a transaction of two scopes that wrote nothing has been committed while
\* a later transaction was open, over a bucket that was written before the
\* transaction began and has been read since
C23_Witness ==
  /\ Committed
  /\ last.stack = <<{}, {}>>
  /\ Open # {}
  /\ \E k \in DOMAIN root.table :
       /\ root.table[k].rs > LatestStamp(root.table[k])
       /\ \A x \in Open : root.table[k].rs < Timestamp(x)

=============================================================================
